---- MODULE Spec2Model ----
(***************************************************************************)
(* StocksTradeSignal.py: a polling loop that, for every symbol of a        *)
(* watchlist, fetches price bars, computes two moving averages and an RSI, *)
(* detects a crossover signal, and e-mails + logs every signal that        *)
(* differs from the last one recorded for the symbol.                      *)
(*                                                                         *)
(* Floats are modelled as exact rationals <<n, d>> with d > 0; NaN is      *)
(* <<0, 0>>.  Every ordering comparison with a NaN operand is FALSE, as in *)
(* IEEE-754 / Python.                                                      *)
(***************************************************************************)
EXTENDS Integers, Sequences, FiniteSets, TLC

(***************************************************************************)
(* Configuration (read from the environment at import, lines 20-28).  The  *)
(* checked configuration sets small windows through the environment        *)
(* (FAST_SMA=2, SLOW_SMA=3, RSI_PERIOD=5, WATCHLIST=AAPL,MSFT) and keeps   *)
(* the default thresholds.                                                 *)
(***************************************************************************)
WATCHLIST == <<"AAPL", "MSFT">>

FAST_SMA == 2

SLOW_SMA == 3

RSI_PERIOD == 5

RSI_OVERSOLD == 30

RSI_OVERBOUGHT == 70

\* Number of polling cycles the model follows (the loop itself is endless).
MaxCycles == 2

\* Python's None (absent signal, missing dict key).
None == "none"

(***************************************************************************)
(* Float arithmetic                                                        *)
(***************************************************************************)
NaN == <<0, 0>>

IsNaN(x) == x[2] = 0

Float(n) == <<n, 1>>

Abs(n) == IF n < 0 THEN 0 - n ELSE n

RECURSIVE GCD(_, _)
GCD(a, b) == IF b = 0 THEN a ELSE GCD(b, a % b)

\* The rational n/d (d > 0) in lowest terms.
Norm(n, d) ==
    LET g == GCD(Abs(n), d)
    IN  IF n < 0 THEN <<0 - (Abs(n) \div g), d \div g>> ELSE <<n \div g, d \div g>>

FAdd(a, b) ==
    IF IsNaN(a) \/ IsNaN(b) THEN NaN ELSE Norm(a[1] * b[2] + b[1] * a[2], a[2] * b[2])

FSub(a, b) ==
    IF IsNaN(a) \/ IsNaN(b) THEN NaN ELSE Norm(a[1] * b[2] - b[1] * a[2], a[2] * b[2])

FMul(a, b) ==
    IF IsNaN(a) \/ IsNaN(b) THEN NaN ELSE Norm(a[1] * b[1], a[2] * b[2])

FNeg(a) == IF IsNaN(a) THEN NaN ELSE <<0 - a[1], a[2]>>

\* a / b.  A zero divisor is only met where the caller discards the quotient
\* (the RSI's np.where picks 100 there), so it is given as NaN.
FDiv(a, b) ==
    IF IsNaN(a) \/ IsNaN(b) \/ b[1] = 0 THEN NaN
    ELSE IF b[1] < 0 THEN Norm(0 - (a[1] * b[2]), a[2] * (0 - b[1]))
    ELSE Norm(a[1] * b[2], a[2] * b[1])

FLt(a, b) == ~IsNaN(a) /\ ~IsNaN(b) /\ a[1] * b[2] < b[1] * a[2]

FLe(a, b) == ~IsNaN(a) /\ ~IsNaN(b) /\ a[1] * b[2] <= b[1] * a[2]

FGt(a, b) == FLt(b, a)

FGe(a, b) == FLe(b, a)

FEq(a, b) == ~IsNaN(a) /\ ~IsNaN(b) /\ a[1] * b[2] = b[1] * a[2]

Max(a, b) == IF a >= b THEN a ELSE b

(***************************************************************************)
(* compute_indicators (lines 56-61)                                        *)
(* A frame is a sequence of rows; fetch gives rows with the column Close,  *)
(* compute_indicators adds close, sma_fast, sma_slow and rsi.              *)
(***************************************************************************)
\* df[name] for the first n rows.
RECURSIVE ColumnTo(_, _, _)
ColumnTo(df, name, n) ==
    IF n = 0 THEN <<>> ELSE Append(ColumnTo(df, name, n - 1), df[n][name])

Column(df, name) == ColumnTo(df, name, Len(df))

\* s[i-w+1] + ... + s[i]
RECURSIVE WindowSum(_, _, _)
WindowSum(s, i, w) == IF w = 0 THEN Float(0) ELSE FAdd(WindowSum(s, i - 1, w - 1), s[i])

\* The mutant of RollingMeanTo: the window fills one row late.
RECURSIVE RollingMeanTo_Late(_, _, _)
RollingMeanTo_Late(s, w, n) ==
    IF n = 0 THEN <<>>
    ELSE Append(RollingMeanTo_Late(s, w, n - 1),
                IF n <= w THEN NaN ELSE FDiv(WindowSum(s, n, w), Float(w)))

RECURSIVE RollingMeanTo(_, _, _)
RollingMeanTo(s, w, n) ==
    IF n = 0 THEN <<>>
    ELSE Append(RollingMeanTo(s, w, n - 1),
                IF n < w THEN NaN ELSE FDiv(WindowSum(s, n, w), Float(w)))

\* Series.rolling(window=w).mean(): NaN until w observations are in the
\* window, and NaN whenever the window holds a NaN.
RollingMean(s, w) == RollingMeanTo(s, w, Len(s))

RECURSIVE DiffTo(_, _)
DiffTo(s, n) ==
    IF n = 0 THEN <<>>
    ELSE Append(DiffTo(s, n - 1), IF n = 1 THEN NaN ELSE FSub(s[n], s[n - 1]))

\* Series.diff(1)
Diff(s) == DiffTo(s, Len(s))

RECURSIVE UpDirectionTo(_, _)
UpDirectionTo(d, n) ==
    IF n = 0 THEN <<>>
    ELSE Append(UpDirectionTo(d, n - 1), IF FGt(d[n], Float(0)) THEN d[n] ELSE Float(0))

\* diff.where(diff > 0, 0.0)
UpDirection(d) == UpDirectionTo(d, Len(d))

RECURSIVE DownDirectionTo(_, _)
DownDirectionTo(d, n) ==
    IF n = 0 THEN <<>>
    ELSE Append(DownDirectionTo(d, n - 1),
                IF FLt(d[n], Float(0)) THEN FNeg(d[n]) ELSE Float(0))

\* -diff.where(diff < 0, 0.0)
DownDirection(d) == DownDirectionTo(d, Len(d))

\* One step of ewm(alpha=1/w, adjust=False).mean():
\* y[i] = (1 - 1/w) * y[i-1] + (1/w) * x[i].
EwmStep(y, x, w) ==
    Append(y, FAdd(FMul(<<w - 1, w>>, y[Len(y)]), FMul(<<1, w>>, x)))

\* The first n values of that mean on a NaN-free series: y[1] = x[1].
RECURSIVE EwmTo(_, _, _)
EwmTo(s, w, n) ==
    IF n = 0 THEN <<>>
    ELSE IF n = 1 THEN <<s[1]>>
    ELSE EwmStep(EwmTo(s, w, n - 1), s[n], w)

\* min_periods=w: the first w-1 results are NaN.
RECURSIVE MinPeriods(_, _, _)
MinPeriods(y, w, n) ==
    IF n = 0 THEN <<>>
    ELSE Append(MinPeriods(y, w, n - 1), IF n < w THEN NaN ELSE y[n])

\* ewm(alpha=1/w, min_periods=w, adjust=False).mean()
Ewm(s, w) == MinPeriods(EwmTo(s, w, Len(s)), w, Len(s))

\* The mutant of RsiValue: without np.where the division by a zero average
\* loss is inf or NaN (0/0), and NaN propagates.
RsiValue_NoZeroGuard(up, dn) ==
    IF FEq(dn, Float(0)) /\ FEq(up, Float(0)) THEN NaN
    ELSE IF FEq(dn, Float(0)) THEN Float(100)
    ELSE FSub(Float(100), FDiv(Float(100), FAdd(Float(1), FDiv(up, dn))))

\* np.where(emadn == 0, 100, 100 - (100 / (1 + emaup / emadn)))
RsiValue(up, dn) ==
    IF FEq(dn, Float(0)) THEN Float(100)
    ELSE FSub(Float(100), FDiv(Float(100), FAdd(Float(1), FDiv(up, dn))))

RECURSIVE RsiSeries(_, _, _)
RsiSeries(emaup, emadn, n) ==
    IF n = 0 THEN <<>>
    ELSE Append(RsiSeries(emaup, emadn, n - 1), RsiValue(emaup[n], emadn[n]))

RsiOfDiff(diff, w) ==
    RsiSeries(Ewm(UpDirection(diff), w), Ewm(DownDirection(diff), w), Len(diff))

\* RSIIndicator(close, window=w).rsi()
RSI(s, w) == RsiOfDiff(Diff(s), w)

\* The first n rows of the frame with the columns of lines 57-60 set.
RECURSIVE WithIndicators(_, _, _, _, _, _)
WithIndicators(df, close, fast, slow, rsi, n) ==
    IF n = 0 THEN <<>>
    ELSE Append(WithIndicators(df, close, fast, slow, rsi, n - 1),
                [Close |-> df[n].Close, close |-> close[n],
                 sma_fast |-> fast[n], sma_slow |-> slow[n], rsi |-> rsi[n]])

IndicatorsOf(df, close) ==
    WithIndicators(df, close, RollingMean(close, FAST_SMA),
                   RollingMean(close, SLOW_SMA), RSI(close, RSI_PERIOD), Len(df))

compute_indicators(df) == IndicatorsOf(df, Column(df, "Close"))

(***************************************************************************)
(* detect_signals (lines 63-83)                                            *)
(***************************************************************************)
cross_up(prev_fast, prev_slow, last_fast, last_slow) ==
    FLe(prev_fast, prev_slow) /\ FGt(last_fast, last_slow)

\* The mutant of cross_down: the test of the last bar is missing.
cross_down_PrevOnly(prev_fast, prev_slow, last_fast, last_slow) ==
    FGe(prev_fast, prev_slow)

cross_down(prev_fast, prev_slow, last_fast, last_slow) ==
    FGe(prev_fast, prev_slow) /\ FLt(last_fast, last_slow)

\* Line 64 negated: the frame is long enough to look at its last two rows.
EnoughData(n) == ~(n < Max(FAST_SMA, SLOW_SMA) + 1)

\* The mutant of Classify: the oscillator guards accept the threshold itself.
Classify_Inclusive(prev_fast, prev_slow, last_fast, last_slow, last_rsi) ==
    IF cross_up(prev_fast, prev_slow, last_fast, last_slow)
       /\ FGe(last_rsi, Float(RSI_OVERSOLD)) THEN "buy"
    ELSE IF cross_down(prev_fast, prev_slow, last_fast, last_slow)
            /\ FLe(last_rsi, Float(RSI_OVERBOUGHT)) THEN "sell"
    ELSE None

\* The mutant of Classify: the oscillator guards are written as negated
\* comparisons (not rsi <= oversold, not rsi >= overbought), which NaN passes.
Classify_NegatedGuards(prev_fast, prev_slow, last_fast, last_slow, last_rsi) ==
    IF cross_up(prev_fast, prev_slow, last_fast, last_slow)
       /\ ~FLe(last_rsi, Float(RSI_OVERSOLD)) THEN "buy"
    ELSE IF cross_down(prev_fast, prev_slow, last_fast, last_slow)
            /\ ~FGe(last_rsi, Float(RSI_OVERBOUGHT)) THEN "sell"
    ELSE None

\* Lines 76-83.
Classify(prev_fast, prev_slow, last_fast, last_slow, last_rsi) ==
    IF cross_up(prev_fast, prev_slow, last_fast, last_slow)
       /\ FGt(last_rsi, Float(RSI_OVERSOLD)) THEN "buy"
    ELSE IF cross_down(prev_fast, prev_slow, last_fast, last_slow)
            /\ FLt(last_rsi, Float(RSI_OVERBOUGHT)) THEN "sell"
    ELSE None

\* What a call yields when it raises instead of returning.
IndexError == "IndexError"

\* The mutant of detect_signals: the length guard of lines 64-65 is missing.
detect_signals_NoGuard(df) ==
    IF Len(df) < 2 THEN IndexError
    ELSE Classify(df[Len(df) - 1].sma_fast, df[Len(df) - 1].sma_slow,
                  df[Len(df)].sma_fast, df[Len(df)].sma_slow, df[Len(df)].rsi)

\* df.iloc[[-1]] and df.iloc[[-2]] (lines 67-68) raise on a frame with fewer
\* than two rows; the guard of line 64 returns before they are reached.
detect_signals(df) ==
    IF ~EnoughData(Len(df)) THEN None
    ELSE IF Len(df) < 2 THEN IndexError
    ELSE Classify(df[Len(df) - 1].sma_fast, df[Len(df) - 1].sma_slow,
                  df[Len(df)].sma_fast, df[Len(df)].sma_slow, df[Len(df)].rsi)

(***************************************************************************)
(* State of the process and of its surroundings                            *)
(***************************************************************************)
VARIABLES
    pc,             \* position of main_loop
    idx,            \* index of `symbol` in WATCHLIST (the for loop, line 96)
    now,            \* the clock: polling cycles slept so far
    last_signals,   \* the dict of line 94: symbol -> "buy" | "sell"
    df,             \* local df of main_loop
    sig,            \* local sig
    price,          \* local price
    ts,             \* local ts
    log_file,       \* LOG_FILE on disk: [isfile, lines]
    outbox,         \* every message send_email was called with, and its fate
    trace,          \* what the current iteration has done so far, in order
    start_signals,  \* last_signals as it was when the current iteration began
    log_failed,     \* symbol -> number of log_signal calls that raised
    info_log        \* the "Checked ..." records (line 106) of the current iteration

vars == <<pc, idx, now, last_signals, df, sig, price, ts, log_file, outbox,
          trace, start_signals, log_failed, info_log>>

Symbols == {WATCHLIST[i] : i \in 1..Len(WATCHLIST)}

symbol == WATCHLIST[idx]

\* dict.get(key): None for a missing key.
Get(d, k) == IF k \in DOMAIN d THEN d[k] ELSE None

\* The mutant of Put: last_signals = {symbol: sig}, the other entries are lost.
Put_Clobber(d, k, v) == [x \in {k} |-> v]

\* d[k] = v on a dict.
Put(d, k, v) == [x \in (DOMAIN d) \cup {k} |-> IF x = k THEN v ELSE d[x]]

(***************************************************************************)
(* What yf.download may return (lines 46-53): closing prices, oldest       *)
(* first.  The feeds cover: no bars; too few bars; a cross up with the RSI *)
(* still undefined; a buy; a sell; a cross up held back by the oversold    *)
(* guard (with a tie on the previous bar); a cross down held back by the   *)
(* overbought guard (again with a tie).                                    *)
(***************************************************************************)
RECURSIVE BarsTo(_, _)
BarsTo(closes, n) ==
    IF n = 0 THEN <<>> ELSE Append(BarsTo(closes, n - 1), [Close |-> Float(closes[n])])

Bars(closes) == BarsTo(closes, Len(closes))

Feeds ==
    { Bars(<<>>),
      Bars(<<1, 2>>),
      Bars(<<2, 1, 1, 2>>),
      Bars(<<2, 2, 1, 1, 2>>),
      Bars(<<1, 1, 2, 2, 1>>),
      Bars(<<6, 1, 1, 1, 2>>),
      Bars(<<1, 6, 6, 6, 5>>) }

(***************************************************************************)
(* Message texts                                                           *)
(***************************************************************************)
\* str.upper() on a signal name.
Upper(s) == IF s = "buy" THEN "BUY" ELSE IF s = "sell" THEN "SELL" ELSE "NONE"

\* format(x, ".kf") with scale = 10^k: the nearest multiple of 1/scale, as a
\* count of such units (NaN prints as "nan", given here as NaN itself).
Fmt(x, scale) ==
    IF IsNaN(x) THEN NaN
    ELSE <<(2 * x[1] * scale + x[2]) \div (2 * x[2]), scale>>

\* Line 109.
Subject(s, sym) == <<"Stock Signal:", Upper(s), sym>>

\* Line 110.
Body(s, sym, p, t, frame) ==
    <<Upper(s), sym, Fmt(p, 100), t,
      Fmt(frame[Len(frame)].sma_fast, 100),
      Fmt(frame[Len(frame)].sma_slow, 100),
      Fmt(frame[Len(frame)].rsi, 10)>>

\* Line 86: the row log_signal writes.
Row(t, sym, s, p, extra) ==
    [kind |-> "row", timestamp |-> t, symbol |-> sym, signal |-> s,
     price |-> p, extra |-> extra]

\* The header line DataFrame.to_csv writes first.
Header ==
    [kind |-> "header",
     columns |-> <<"timestamp", "symbol", "signal", "price", "extra">>]

(***************************************************************************)
(* main_loop (lines 93-116)                                                *)
(***************************************************************************)
Init ==
    /\ pc = "fetch"
    /\ idx = 1
    /\ now = 0
    /\ last_signals = <<>>
    /\ df = <<>>
    /\ sig = None
    /\ price = NaN
    /\ ts = 0
    /\ log_file = [isfile |-> FALSE, lines |-> <<>>]
    /\ outbox = <<>>
    /\ trace = <<>>
    /\ start_signals = <<>>
    /\ log_failed = [s \in Symbols |-> 0]
    /\ info_log = <<>>

\* The end of one iteration of the for loop: on to the next symbol, or to
\* the sleep of line 116 after the last one.  The locals df, price and ts are
\* dead from here on (the next iteration assigns them before it reads them),
\* so the model forgets them.
NextSymbol ==
    /\ IF idx < Len(WATCHLIST)
       THEN /\ idx' = idx + 1
            /\ pc' = "fetch"
       ELSE /\ idx' = idx
            /\ pc' = "sleep"
    /\ df' = <<>>
    /\ price' = NaN
    /\ ts' = 0

\* The mutant of Fetch: lines 99-100 are missing, an empty frame goes on to
\* the computation.
Fetch_NoEmptyCheck ==
    /\ pc = "fetch"
    /\ \E bars \in Feeds :
         /\ trace' = <<"fetched">>
         /\ df' = bars
    /\ pc' = "compute"
    /\ start_signals' = last_signals
    /\ sig' = None
    /\ price' = NaN
    /\ ts' = 0
    /\ info_log' = <<>>
    /\ UNCHANGED <<idx, now, last_signals, log_file, outbox, log_failed>>

\* Lines 98-100: fetch returned; an empty frame skips the symbol.
Fetch ==
    /\ pc = "fetch"
    /\ \E bars \in Feeds :
         IF bars = <<>>
         THEN /\ trace' = <<"empty">>
              /\ NextSymbol
         ELSE /\ trace' = <<"fetched">>
              /\ df' = bars
              /\ pc' = "compute"
              /\ idx' = idx
              /\ price' = NaN
              /\ ts' = 0
    /\ start_signals' = last_signals
    /\ sig' = None
    /\ info_log' = <<>>
    /\ UNCHANGED <<now, last_signals, log_file, outbox, log_failed>>

\* Line 98: fetch raised (a network failure).
FetchRaise ==
    /\ pc = "fetch"
    /\ pc' = "except"
    /\ trace' = <<"fetch_raised">>
    /\ start_signals' = last_signals
    /\ df' = <<>>
    /\ sig' = None
    /\ price' = NaN
    /\ ts' = 0
    /\ info_log' = <<>>
    /\ UNCHANGED <<idx, now, last_signals, log_file, outbox, log_failed>>

\* Line 106: the text of the record.
CheckedRecord(sym, t, p) == [symbol |-> sym, timestamp |-> t, price |-> Fmt(p, 100)]

\* The mutant of logging_info: the level of line 30 is WARNING, the record is
\* dropped.
logging_info_Dropped(log, record) == log

\* logging.info at level INFO (line 30): the record is emitted.
logging_info(log, record) == Append(log, record)

\* The mutant of ShouldEmit: every detected signal is emitted.
ShouldEmit_NoDedup(s, stored) == s # None

\* Line 108: the dedup gate.
ShouldEmit(s, stored) == s # None /\ stored # s

\* Lines 101-108: indicators, detection, the "Checked" line, the gate.  An
\* IndexError out of detect_signals, or out of df['close'].iloc[-1] on an
\* empty frame (line 103), goes to the handler of line 114.
Check ==
    /\ pc = "compute"
    /\ \E frame \in {compute_indicators(df)} :
       \E s \in {detect_signals(frame)} :
         IF s = IndexError \/ frame = <<>>
         THEN /\ pc' = "except"
              /\ trace' = Append(trace, "check_raised")
              /\ UNCHANGED <<idx, df, sig, price, ts, info_log>>
         ELSE /\ sig' = s
              /\ trace' = Append(trace, "checked")
              /\ info_log' = logging_info(info_log,
                                CheckedRecord(symbol, now, frame[Len(frame)].close))
              /\ IF ShouldEmit(s, Get(last_signals, symbol))
                 THEN /\ df' = frame
                      /\ price' = frame[Len(frame)].close
                      /\ ts' = now
                      /\ pc' = "send_email"
                      /\ idx' = idx
                 ELSE NextSymbol
    /\ UNCHANGED <<now, last_signals, log_file, outbox, start_signals, log_failed>>

\* Lines 101-103: the frame lacks what the computation needs and it raises.
ComputeRaise ==
    /\ pc = "compute"
    /\ pc' = "except"
    /\ trace' = Append(trace, "compute_raised")
    /\ UNCHANGED <<info_log, idx, now, last_signals, df, sig, price, ts, log_file, outbox,
                   start_signals, log_failed>>

Message(delivered) ==
    [subject |-> Subject(sig, symbol), body |-> Body(sig, symbol, price, ts, df),
     symbol |-> symbol, signal |-> sig, delivered |-> delivered]

\* The mutant of send_email: the caller goes from the notification straight
\* to line 113, without line 112.
send_email_ThenRecord(delivered) ==
    /\ outbox' = Append(outbox, Message(delivered))
    /\ trace' = Append(trace, IF delivered THEN "email_sent" ELSE "email_failed")
    /\ pc' = "record"

\* send_email, lines 31-44.  Whether the SMTP session succeeds (line 42) or
\* raises (lines 43-44, logged and swallowed), the call returns normally.
send_email(delivered) ==
    /\ outbox' = Append(outbox, Message(delivered))
    /\ trace' = Append(trace, IF delivered THEN "email_sent" ELSE "email_failed")
    /\ pc' = "log_signal"

SendEmailOk ==
    /\ pc = "send_email"
    /\ send_email(TRUE)
    /\ UNCHANGED <<info_log, idx, now, last_signals, df, sig, price, ts, log_file,
                   start_signals, log_failed>>

SendEmailFail ==
    /\ pc = "send_email"
    /\ send_email(FALSE)
    /\ UNCHANGED <<info_log, idx, now, last_signals, df, sig, price, ts, log_file,
                   start_signals, log_failed>>

\* The mutant of log_signal: the file is opened with mode 'w' and a header is
\* written every time.
log_signal_Truncate(file, row) == [isfile |-> TRUE, lines |-> <<Header, row>>]

\* The mutant of log_signal: header=False is missing at line 91, every append
\* writes the header again.
log_signal_HeaderAlways(file, row) ==
    [isfile |-> TRUE, lines |-> file.lines \o <<Header, row>>]

\* log_signal, lines 85-91.
log_signal(file, row) ==
    IF ~file.isfile
    THEN [isfile |-> TRUE, lines |-> <<Header, row>>]
    ELSE [isfile |-> TRUE, lines |-> Append(file.lines, row)]

LogSignal ==
    /\ pc = "log_signal"
    /\ log_file' = log_signal(log_file,
                     Row(ts, symbol, sig, price, Body(sig, symbol, price, ts, df)))
    /\ trace' = Append(trace, "logged")
    /\ pc' = "record"
    /\ UNCHANGED <<info_log, idx, now, last_signals, df, sig, price, ts, outbox,
                   start_signals, log_failed>>

\* The mutant of LogSignalRaise: the failure of the write is swallowed and
\* line 113 runs.
LogSignalRaise_Swallowed ==
    /\ pc = "log_signal"
    /\ pc' = "record"
    /\ trace' = Append(trace, "log_raised")
    /\ log_failed' = [log_failed EXCEPT ![symbol] = @ + 1]
    /\ UNCHANGED <<info_log, idx, now, last_signals, df, sig, price, ts, log_file, outbox,
                   start_signals>>

\* Line 112: the write raised (disk full, no permission); nothing is written.
LogSignalRaise ==
    /\ pc = "log_signal"
    /\ pc' = "except"
    /\ trace' = Append(trace, "log_raised")
    /\ log_failed' = [log_failed EXCEPT ![symbol] = @ + 1]
    /\ UNCHANGED <<info_log, idx, now, last_signals, df, sig, price, ts, log_file, outbox,
                   start_signals>>

\* The mutant of Record: line 113 is missing, nothing is stored.
Record_Missing ==
    /\ pc = "record"
    /\ trace' = Append(trace, "recorded")
    /\ NextSymbol
    /\ UNCHANGED <<info_log, now, last_signals, sig, log_file, outbox,
                   start_signals, log_failed>>

\* Line 113.
Record ==
    /\ pc = "record"
    /\ last_signals' = Put(last_signals, symbol, sig)
    /\ trace' = Append(trace, "recorded")
    /\ NextSymbol
    /\ UNCHANGED <<info_log, now, sig, log_file, outbox, start_signals, log_failed>>

\* The mutant of Except: the handler raises again and main_loop ends.
Except_Reraise ==
    /\ pc = "except"
    /\ pc' = "exit"
    /\ trace' = Append(trace, "error_reported")
    /\ UNCHANGED <<info_log, idx, now, last_signals, df, sig, price, ts, log_file, outbox,
                   start_signals, log_failed>>

\* Lines 114-115: the per-symbol handler reports and the loop goes on.
Except ==
    /\ pc = "except"
    /\ trace' = Append(trace, "error_reported")
    /\ NextSymbol
    /\ UNCHANGED <<info_log, now, last_signals, sig, log_file, outbox, start_signals,
                   log_failed>>

\* The mutant of Sleep: last_signals = {} sits inside while True, the memory
\* is forgotten at every cycle.
Sleep_Expire ==
    /\ pc = "sleep"
    /\ now + 1 < MaxCycles
    /\ now' = now + 1
    /\ idx' = 1
    /\ pc' = "fetch"
    /\ last_signals' = <<>>
    /\ UNCHANGED <<info_log, df, sig, price, ts, log_file, outbox, trace, start_signals,
                   log_failed>>

\* The mutant of Sleep: main_loop returns after the sleep (a break in place
\* of the next pass of while True).
Sleep_Return ==
    /\ pc = "sleep"
    /\ now + 1 < MaxCycles
    /\ now' = now + 1
    /\ pc' = "exit"
    /\ UNCHANGED <<info_log, idx, last_signals, df, sig, price, ts, log_file, outbox, trace,
                   start_signals, log_failed>>

\* Line 116, then the next pass of while True.
Sleep ==
    /\ pc = "sleep"
    /\ now + 1 < MaxCycles
    /\ now' = now + 1
    /\ idx' = 1
    /\ pc' = "fetch"
    /\ UNCHANGED <<info_log, last_signals, df, sig, price, ts, log_file, outbox, trace,
                   start_signals, log_failed>>

Next ==
    \/ Fetch
    \/ FetchRaise
    \/ Check
    \/ ComputeRaise
    \/ SendEmailOk
    \/ SendEmailFail
    \/ LogSignal
    \/ LogSignalRaise
    \/ Record
    \/ Except
    \/ Sleep

Spec == Init /\ [][Next]_vars

\* Every call of the loop body returns or raises, and the sleep ends: at each
\* position of the loop one of the steps that leave it is eventually taken.
\* Nothing is assumed about which of them: a fetch may raise every time.
Fairness ==
    /\ WF_vars(Fetch \/ FetchRaise)
    /\ WF_vars(ComputeRaise \/ Check)
    /\ WF_vars(SendEmailOk \/ SendEmailFail)
    /\ WF_vars(LogSignal \/ LogSignalRaise)
    /\ WF_vars(Record)
    /\ WF_vars(Except)
    /\ WF_vars(Sleep)

SpecLive == Init /\ [][Next]_vars /\ Fairness

(***************************************************************************)
(* detect_signals on arbitrary frames: a second specification whose        *)
(* initial states hold every frame of up to MaxRows rows whose last two    *)
(* rows take their indicator values from the sets below (the values of the *)
(* end-to-end scenarios, the two thresholds, and NaN), and whose one step  *)
(* applies detect_signals.                                                 *)
(***************************************************************************)
MaxRows == 4

\* 9.8, 10.0, 10.05, 10.2 and NaN.
SmaValues == {<<49, 5>>, <<10, 1>>, <<201, 20>>, <<51, 5>>, NaN}

RsiValues == {Float(25), Float(RSI_OVERSOLD), Float(45), Float(RSI_OVERBOUGHT),
              Float(75), NaN}

TailRows ==
    { [Close |-> Float(10), close |-> Float(10), sma_fast |-> f, sma_slow |-> g,
       rsi |-> r] : f \in SmaValues, g \in SmaValues, r \in RsiValues }

\* A row early in the frame: the windows have not filled yet.
EarlyRow ==
    [Close |-> Float(10), close |-> Float(10), sma_fast |-> NaN, sma_slow |-> NaN,
     rsi |-> NaN]

RECURSIVE EarlyRows(_)
EarlyRows(n) == IF n = 0 THEN <<>> ELSE Append(EarlyRows(n - 1), EarlyRow)

\* The frame of n rows that ends with the rows prev and last.
Frame(n, prev, last) ==
    IF n = 0 THEN <<>>
    ELSE IF n = 1 THEN <<last>>
    ELSE EarlyRows(n - 2) \o <<prev, last>>

InitDetect ==
    /\ pc = "detect"
    /\ \E n \in 0..MaxRows : \E prev \in TailRows : \E last \in TailRows :
         df = Frame(n, prev, last)
    /\ idx = 1
    /\ now = 0
    /\ last_signals = <<>>
    /\ sig = None
    /\ price = NaN
    /\ ts = 0
    /\ log_file = [isfile |-> FALSE, lines |-> <<>>]
    /\ outbox = <<>>
    /\ trace = <<>>
    /\ start_signals = <<>>
    /\ log_failed = [s \in Symbols |-> 0]
    /\ info_log = <<>>

\* sig = detect_signals(df), line 102.
DetectFrame ==
    /\ pc = "detect"
    /\ sig' = detect_signals(df)
    /\ pc' = "detected"
    /\ UNCHANGED <<info_log, idx, now, last_signals, df, price, ts, log_file, outbox, trace,
                   start_signals, log_failed>>

NextDetect == DetectFrame

SpecDetect == InitDetect /\ [][NextDetect]_vars

(***************************************************************************)
(* compute_indicators on arbitrary bars: a third specification whose       *)
(* initial states hold every sequence of up to MaxBars bars with closes    *)
(* from CloseValues, and whose one step applies compute_indicators.        *)
(***************************************************************************)
MaxBars == 6

CloseValues == {1, 2, 3}

InitIndicators ==
    /\ pc = "indicators"
    /\ \E n \in 0..MaxBars : \E closes \in [1..n -> CloseValues] :
         df = Bars(closes)
    /\ idx = 1
    /\ now = 0
    /\ last_signals = <<>>
    /\ sig = None
    /\ price = NaN
    /\ ts = 0
    /\ log_file = [isfile |-> FALSE, lines |-> <<>>]
    /\ outbox = <<>>
    /\ trace = <<>>
    /\ start_signals = <<>>
    /\ log_failed = [s \in Symbols |-> 0]
    /\ info_log = <<>>

\* df = compute_indicators(df), line 101.
ComputeFrame ==
    /\ pc = "indicators"
    /\ df' = compute_indicators(df)
    /\ pc' = "computed"
    /\ UNCHANGED <<idx, now, last_signals, sig, price, ts, log_file, outbox, trace,
                   start_signals, log_failed, info_log>>

NextIndicators == ComputeFrame

SpecIndicators == InitIndicators /\ [][NextIndicators]_vars

(***************************************************************************)
(* Vocabulary of the properties                                            *)
(***************************************************************************)
Range(q) == {q[i] : i \in 1..Len(q)}

Last(q) == q[Len(q)]

Signals == {"buy", "sell"}

\* The symbol the current trace belongs to: at "fetch" the loop has already
\* moved on to the next symbol (or wrapped around after the sleep).
TraceSymbol ==
    IF pc = "fetch"
    THEN IF idx = 1 THEN WATCHLIST[Len(WATCHLIST)] ELSE WATCHLIST[idx - 1]
    ELSE WATCHLIST[idx]

\* Messages handed to the notifier for symbol s / rows of the log for s.
Notified(s) == {i \in 1..Len(outbox) : outbox[i].symbol = s}

Logged(s) ==
    {i \in 1..Len(log_file.lines) :
        log_file.lines[i].kind = "row" /\ log_file.lines[i].symbol = s}

\* The last message / the last log line is the one of this iteration.
MessageOfThisIteration ==
    /\ outbox # <<>>
    /\ Last(outbox).symbol = symbol
    /\ Last(outbox).signal = sig
    /\ Last(outbox).body[4] = now

RowOfThisIteration ==
    /\ log_file.lines # <<>>
    /\ Last(log_file.lines).kind = "row"
    /\ Last(log_file.lines).symbol = symbol
    /\ Last(log_file.lines).signal = sig
    /\ Last(log_file.lines).timestamp = now

Emailed == "email_sent" \in Range(trace) \/ "email_failed" \in Range(trace)

RaiseEvents == {"fetch_raised", "compute_raised", "check_raised", "log_raised"}

IsEmissionEvent(e) == e \in {"email_sent", "email_failed", "logged", "recorded"}

\* The notify / log / record events of the current iteration, in order.
Emission == SelectSeq(trace, IsEmissionEvent)

PCs == {"fetch", "compute", "send_email", "log_signal", "record", "except", "sleep"}

\* The position the for loop takes after the iteration of WATCHLIST[idx].
AfterIteration ==
    /\ pc' = (IF idx < Len(WATCHLIST) THEN "fetch" ELSE "sleep")
    /\ idx' = (IF idx < Len(WATCHLIST) THEN idx + 1 ELSE idx)

(***************************************************************************)
(* C1.  When the notifier fails to deliver the notification of a detected, *)
(* non-duplicate signal of symbol S, the dedup memory entry of S is not    *)
(* updated in that cycle (so the same signal is retried next cycle).       *)
(* Stated as: in an iteration whose e-mail failed, the entry of the        *)
(* symbol is what it was when the iteration began.                         *)
(***************************************************************************)
C1_FailedNotificationNotRecorded ==
    "email_failed" \in Range(trace) =>
        Get(last_signals, TraceSymbol) = Get(start_signals, TraceSymbol)

(***************************************************************************)
(* C2.  Dedup gate: for a detected signal g of symbol S the iteration goes *)
(* on to notify and log iff nothing is stored for S or the stored signal   *)
(* differs from g.  The notifier is handed exactly one message for (S, g)  *)
(* in the step after the gate let g through, and in no other step; the log *)
(* changes only in the step after that, by exactly one row for (S, g),     *)
(* unless the write itself raises.                                         *)
(***************************************************************************)
C2_DedupGate ==
    [][ /\ (pc = "compute" /\ "checked" \in Range(trace')) =>
             ( (pc' = "send_email") <=>
               ( /\ sig' \in Signals
                 /\ \/ symbol \notin DOMAIN last_signals
                    \/ last_signals[symbol] # sig' ) )
        /\ (pc' = "send_email") => (pc = "compute")
        /\ (outbox' # outbox) <=> (pc = "send_email")
        /\ (pc = "send_email") =>
             /\ Len(outbox') = Len(outbox) + 1
             /\ SubSeq(outbox', 1, Len(outbox)) = outbox
             /\ Last(outbox').symbol = symbol
             /\ Last(outbox').signal = sig
             /\ pc' = "log_signal"
        /\ (log_file' # log_file) => (pc = "log_signal")
        /\ (pc = "log_signal") =>
             \/ pc' = "except" /\ log_file' = log_file
             \/ /\ Cardinality(Logged(symbol)') = Cardinality(Logged(symbol)) + 1
                /\ Last(log_file'.lines).kind = "row"
                /\ Last(log_file'.lines).symbol = symbol
                /\ Last(log_file'.lines).signal = sig
      ]_vars

\* Scenario C: the second cycle detects Buy again for a symbol whose Buy was
\* notified and recorded in the first; nothing is sent.
C2_Witness ==
    /\ now = 1
    /\ pc \in {"fetch", "sleep"}
    /\ trace = <<"fetched", "checked">>
    /\ sig = "buy"
    /\ Get(last_signals, TraceSymbol) = "buy"
    /\ Cardinality(Notified(TraceSymbol)) = 1
    /\ Cardinality(Logged(TraceSymbol)) = 1

(***************************************************************************)
(* C3.  No expiry: while g is the signal stored for S, no step hands the   *)
(* notifier a g message for S, and the entry of S changes only in the      *)
(* record step of an iteration of S that detected the other signal; it is  *)
(* never cleared, whatever the cycles in between detect or fail on.        *)
(***************************************************************************)
C3_NoExpiry ==
    [][ \A s \in Symbols : \A g \in Signals :
          Get(last_signals, s) = g =>
            /\ \A i \in Notified(s)' \ Notified(s) : outbox'[i].signal # g
            /\ Get(last_signals', s) # g =>
                 /\ pc = "record"
                 /\ symbol = s
                 /\ sig \in Signals \ {g}
                 /\ Get(last_signals', s) = sig
      ]_vars

\* A later cycle detects no signal for a symbol whose Buy is stored: the
\* entry is still Buy.
C3_Witness ==
    /\ now >= 1
    /\ pc \in {"fetch", "sleep"}
    /\ trace = <<"fetched", "checked">>
    /\ sig = None
    /\ Get(start_signals, TraceSymbol) = "buy"
    /\ Get(last_signals, TraceSymbol) = "buy"

(***************************************************************************)
(* C4.  Per-symbol failure isolation: every raise inside an iteration goes *)
(* to the handler of that iteration; the handler reports and the loop goes *)
(* on with the next symbol, or sleeps after the last one; no step skips a  *)
(* symbol; the sleep is followed by the first symbol of the next cycle;    *)
(* the notifier step always continues with the log step; and the loop has  *)
(* no state without a successor (but the last sleep the model follows).    *)
(***************************************************************************)
C4_FailureIsolation ==
    /\ [](pc \in PCs)
    /\ [](\/ ENABLED (Fetch \/ ComputeRaise \/ SendEmailOk \/ LogSignal
                       \/ Record \/ Except \/ Sleep)
          \/ (pc = "sleep" /\ now + 1 = MaxCycles))
    /\ [][ /\ (trace' # trace /\ Last(trace') \in RaiseEvents) =>
                (pc' = "except" /\ idx' = idx)
           /\ (pc = "except") =>
                (trace' = Append(trace, "error_reported") /\ AfterIteration)
           /\ (pc = "send_email") => (pc' = "log_signal")
           /\ (idx' # idx) =>
                \/ idx' = idx + 1 /\ pc' = "fetch"
                \/ pc = "sleep" /\ idx' = 1
           /\ (pc = "sleep") => (pc' = "fetch" /\ idx' = 1 /\ now' = now + 1)
           /\ (pc' = "sleep") => (idx = Len(WATCHLIST))
         ]_vars

\* The first symbol's notification failed and its log write raised; the
\* failure was reported and the loop stands at the second symbol.
C4_Witness ==
    /\ pc = "fetch"
    /\ idx = 2
    /\ trace = <<"fetched", "checked", "email_failed", "log_raised", "error_reported">>

(***************************************************************************)
(* C5.  The dedup memory changes only in the record step of an iteration   *)
(* whose notifier call and log append both completed (the last message and *)
(* the last log row are this iteration's), and then only in the entry of   *)
(* its symbol; an iteration whose log append raised leaves the memory as   *)
(* it found it.                                                            *)
(***************************************************************************)
C5_RecordOnlyAfterNotifyAndLog ==
    /\ []("log_raised" \in Range(trace) => last_signals = start_signals)
    /\ [][ (last_signals' # last_signals) =>
             /\ pc = "record"
             /\ MessageOfThisIteration
             /\ RowOfThisIteration
             /\ last_signals' = Put(last_signals, symbol, sig)
         ]_vars

\* The log append raised after the notification was handed over, and the
\* iteration is over.
C5_Witness ==
    /\ pc \in {"fetch", "sleep"}
    /\ Emailed
    /\ "log_raised" \in Range(trace)
    /\ "error_reported" \in Range(trace)

(***************************************************************************)
(* C6, as claimed.  At every cycle boundary the number of log records of S *)
(* equals the number of notifications handed to the notifier for S.        *)
(***************************************************************************)
C6_OneRecordPerNotification ==
    (pc = "sleep") =>
        \A s \in Symbols : Cardinality(Logged(s)) = Cardinality(Notified(s))

(***************************************************************************)
(* C6, amended.  The log records of S are as many as the notifications     *)
(* handed to the notifier for S less the log appends for S that raised     *)
(* (less the one still to be written, between the two calls); and every    *)
(* record has a notification of the same symbol, signal and time.          *)
(***************************************************************************)
C6_RecordsAreNotificationsLessFailedAppends ==
    /\ \A s \in Symbols :
         Cardinality(Logged(s)) + log_failed[s]
           + (IF pc = "log_signal" /\ symbol = s THEN 1 ELSE 0)
         = Cardinality(Notified(s))
    /\ \A i \in 1..Len(log_file.lines) :
         log_file.lines[i].kind = "row" =>
           \E j \in 1..Len(outbox) :
             /\ outbox[j].symbol = log_file.lines[i].symbol
             /\ outbox[j].signal = log_file.lines[i].signal
             /\ outbox[j].body[4] = log_file.lines[i].timestamp

\* A cycle boundary with a symbol that has a record and a failed append.
C6_Witness ==
    /\ pc = "sleep"
    /\ \E s \in Symbols : Cardinality(Logged(s)) >= 1 /\ log_failed[s] >= 1

(***************************************************************************)
(* C7.  Empty fetch: when fetch returns no bars the step ends the          *)
(* iteration at once: nothing is computed, detected, notified or logged,   *)
(* the memory is unchanged, nothing is raised, and the loop stands at the  *)
(* next symbol (or at the sleep).                                          *)
(***************************************************************************)
C7_EmptyFetchSkips ==
    /\ []("empty" \in Range(trace) =>
            (trace = <<"empty">> /\ last_signals = start_signals))
    /\ [][ (pc = "fetch" /\ df' = <<>> /\ trace' # <<"fetch_raised">>) =>
             /\ trace' = <<"empty">>
             /\ AfterIteration
             /\ sig' = None
             /\ UNCHANGED <<now, last_signals, log_file, outbox, log_failed>>
         ]_vars

\* The first symbol's fetch was empty; the loop stands at the second.
C7_Witness ==
    /\ pc = "fetch"
    /\ idx = 2
    /\ trace = <<"empty">>

(***************************************************************************)
(* C8.  Insufficient data: for every frame with fewer than                 *)
(* max(FAST_SMA, SLOW_SMA) + 1 rows, and for every frame whose previous or *)
(* last row has an undefined fast or slow average, detect_signals returns  *)
(* no-signal; and it never raises.                                         *)
(***************************************************************************)
C8_InsufficientData ==
    (pc = "detected") =>
        /\ sig \in Signals \cup {None}
        /\ (Len(df) < Max(FAST_SMA, SLOW_SMA) + 1) => (sig = None)
        /\ ( /\ Len(df) >= 2
             /\ \/ df[Len(df) - 1].sma_fast = NaN
                \/ df[Len(df) - 1].sma_slow = NaN
                \/ df[Len(df)].sma_fast = NaN
                \/ df[Len(df)].sma_slow = NaN ) => (sig = None)

\* A frame of three rows whose last two rows are those of scenario A.
C8_Witness ==
    /\ pc = "detected"
    /\ Len(df) = 3
    /\ df[2].sma_fast = <<49, 5>> /\ df[2].sma_slow = <<10, 1>>
    /\ df[3].sma_fast = <<51, 5>> /\ df[3].sma_slow = <<201, 20>>
    /\ df[3].rsi = Float(45)
    /\ sig = None

(***************************************************************************)
(* C9.  Classification: with enough rows and all five values defined, the  *)
(* result is Buy iff prevFast <= prevSlow, lastFast > lastSlow and         *)
(* lastRsi > RSI_OVERSOLD; otherwise Sell iff prevFast >= prevSlow,        *)
(* lastFast < lastSlow and lastRsi < RSI_OVERBOUGHT; otherwise no-signal.  *)
(* The comparisons are those of the rationals n/d.                         *)
(***************************************************************************)
Less(a, b) == a[1] * b[2] < b[1] * a[2]

C9_Classification ==
    ( /\ pc = "detected"
      /\ Len(df) >= Max(FAST_SMA, SLOW_SMA) + 1
      /\ \A x \in { df[Len(df) - 1].sma_fast, df[Len(df) - 1].sma_slow,
                    df[Len(df)].sma_fast, df[Len(df)].sma_slow,
                    df[Len(df)].rsi } : x # NaN ) =>
        LET prevFast == df[Len(df) - 1].sma_fast
            prevSlow == df[Len(df) - 1].sma_slow
            lastFast == df[Len(df)].sma_fast
            lastSlow == df[Len(df)].sma_slow
            lastRsi  == df[Len(df)].rsi
            buy  == /\ ~Less(prevSlow, prevFast)
                    /\ Less(lastSlow, lastFast)
                    /\ Less(<<RSI_OVERSOLD, 1>>, lastRsi)
            sell == /\ ~Less(prevFast, prevSlow)
                    /\ Less(lastFast, lastSlow)
                    /\ Less(lastRsi, <<RSI_OVERBOUGHT, 1>>)
        IN  /\ (sig = "buy") <=> buy
            /\ (sig = "sell") <=> (~buy /\ sell)
            /\ (sig = None) <=> (~buy /\ ~sell)

\* Scenario A: 9.8 <= 10.0, 10.2 > 10.05, oscillator 45: Buy.
C9_Witness ==
    /\ pc = "detected"
    /\ Len(df) = 4
    /\ df[3].sma_fast = <<49, 5>> /\ df[3].sma_slow = <<10, 1>>
    /\ df[4].sma_fast = <<51, 5>> /\ df[4].sma_slow = <<201, 20>>
    /\ df[4].rsi = Float(45)
    /\ sig = "buy"

(***************************************************************************)
(* C10.  Emission order: within an iteration the notifier hand-off comes   *)
(* first, then the log append, then the memory update: the outbox grows    *)
(* exactly in the e-mail step, the log exactly in the "logged" step, the   *)
(* memory changes exactly in the "recorded" step, and these steps occur in *)
(* that order, each at most once.                                          *)
(***************************************************************************)
C10_EmissionOrder ==
    /\ [] \/ Emission = <<>>
          \/ Emission \in {<<e>> : e \in {"email_sent", "email_failed"}}
          \/ Emission \in {<<e, "logged">> : e \in {"email_sent", "email_failed"}}
          \/ Emission \in {<<e, "logged", "recorded">> :
                              e \in {"email_sent", "email_failed"}}
    /\ [][ /\ (outbox' # outbox) <=>
                (trace' \in {Append(trace, "email_sent"), Append(trace, "email_failed")})
           /\ (log_file' # log_file) <=> (trace' = Append(trace, "logged"))
           /\ (last_signals' # last_signals) <=> (trace' = Append(trace, "recorded"))
         ]_vars

\* A complete emission.
C10_Witness ==
    /\ trace = <<"fetched", "checked", "email_sent", "logged", "recorded">>
    /\ Last(outbox).symbol = TraceSymbol
    /\ Last(log_file.lines).symbol = TraceSymbol
    /\ Get(last_signals, TraceSymbol) = Last(outbox).signal

\* The fetch of WATCHLIST[i] was called in cycle c: the loop of cycle c stands
\* behind line 98 of the i-th iteration.
FetchedInCycle(i, c) ==
    /\ now = c
    /\ \/ idx > i
       \/ idx = i /\ pc # "fetch"

(***************************************************************************)
(* C11.  No terminal state, no exit on error: provided every call returns  *)
(* or raises, from every state the loop reaches the sleep; the sleep is    *)
(* followed by the first fetch of the next cycle; and in every cycle every *)
(* symbol of the watchlist is fetched, whatever failed before.  (The model *)
(* follows MaxCycles cycles; the last sleep is where it stops looking.)    *)
(***************************************************************************)
C11_AlwaysAnotherCycle ==
    /\ [](pc \in PCs)
    /\ (pc # "sleep") ~> (pc = "sleep")
    /\ \A c \in 0..(MaxCycles - 2) :
         (pc = "sleep" /\ now = c) ~> (pc = "fetch" /\ idx = 1 /\ now = c + 1)
    /\ \A c \in 0..(MaxCycles - 1) : \A i \in 1..Len(WATCHLIST) :
         (pc = "fetch" /\ idx = 1 /\ now = c) ~> FetchedInCycle(i, c)

\* The second cycle has fetched the last symbol, in a run in which a log
\* write raised and a delivery failed.
C11_Witness ==
    /\ FetchedInCycle(Len(WATCHLIST), 1)
    /\ \E s \in Symbols : log_failed[s] >= 1
    /\ \E i \in 1..Len(outbox) : ~outbox[i].delivered

(***************************************************************************)
(* C12.  Check record: the step that computes and detects without raising  *)
(* emits exactly one record (symbol, time, latest close to two decimals),  *)
(* whether the result is Buy, Sell or no-signal and whether or not the     *)
(* gate lets it through; no other step emits one, so an iteration has at   *)
(* most one; and the record is there before the notifier is called.        *)
(***************************************************************************)
C12_OneCheckRecord ==
    /\ [] /\ Len(info_log) <= 1
          /\ ("checked" \in Range(trace)) <=> (Len(info_log) = 1)
          /\ (info_log # <<>>) => (info_log[1].symbol = TraceSymbol)
          /\ (pc = "send_email") =>
               (Len(info_log) = 1 /\ Last(trace) = "checked" /\ ~Emailed)
          /\ Emailed =>
               /\ Len(info_log) = 1
               /\ Len(trace) >= 3 /\ trace[2] = "checked"
               /\ trace[3] \in {"email_sent", "email_failed"}
    /\ [][ /\ (pc = "compute" /\ pc' # "except") =>
                info_log' = <<[symbol |-> symbol, timestamp |-> now,
                               price |-> Fmt(Last(df).Close, 100)]>>
           /\ (info_log' # info_log /\ info_log' # <<>>) => (pc = "compute")
         ]_vars

\* A duplicate Buy in the second cycle: suppressed, and still checked with its
\* record (price 2.00).
C12_Witness ==
    /\ now = 1
    /\ trace = <<"fetched", "checked">>
    /\ sig = "buy"
    /\ Get(start_signals, TraceSymbol) = "buy"
    /\ info_log = <<[symbol |-> TraceSymbol, timestamp |-> 1, price |-> <<200, 100>>]>>

(***************************************************************************)
(* C13.  The log is append-only with one header: the first write creates   *)
(* the file as header plus record; every later write adds one record at    *)
(* the end and nothing else; so the file is always absent, or the header   *)
(* followed by records only, and every earlier content is a prefix of the  *)
(* current one.                                                            *)
(***************************************************************************)
C13_AppendOnlyOneHeader ==
    /\ [] \/ ~log_file.isfile /\ log_file.lines = <<>>
          \/ /\ log_file.isfile
             /\ Len(log_file.lines) >= 2
             /\ log_file.lines[1] = Header
             /\ \A i \in 2..Len(log_file.lines) : log_file.lines[i].kind = "row"
    /\ [][ (log_file' # log_file) =>
             /\ log_file'.isfile
             /\ Last(log_file'.lines) =
                  Row(ts, symbol, sig, price, Body(sig, symbol, price, ts, df))
             /\ IF log_file.isfile
                THEN Len(log_file'.lines) = Len(log_file.lines) + 1
                ELSE Len(log_file'.lines) = 2
             /\ SubSeq(log_file'.lines, 1, Len(log_file.lines)) = log_file.lines
         ]_vars

\* Two writes: the header and two records, the older one first.
C13_Witness ==
    /\ Len(log_file.lines) = 3
    /\ log_file.lines[1] = Header
    /\ log_file.lines[2].kind = "row" /\ log_file.lines[3].kind = "row"
    /\ log_file.lines[2].timestamp = 0 /\ log_file.lines[3].timestamp = 1

\* close[i-w+1] + ... + close[i] of a frame of whole-number closes.
RECURSIVE SumOfCloses(_, _, _)
SumOfCloses(frame, i, w) ==
    IF w = 0 THEN 0 ELSE SumOfCloses(frame, i - 1, w - 1) + frame[i].close[1]

\* The average of the given column over window w is right at every row: absent
\* on the first w-1 rows, and on the others the number a with
\* a * w = the sum of the last w closes.
MeanColumnIsRight(frame, column, w) ==
    \A i \in 1..Len(frame) :
        IF i < w
        THEN frame[i][column] = NaN
        ELSE /\ frame[i][column] # NaN
             /\ frame[i][column][2] > 0
             /\ frame[i][column][1] * w
                  = SumOfCloses(frame, i, w) * frame[i][column][2]

(***************************************************************************)
(* C14.  Moving average: for every bar sequence, the frame                 *)
(* compute_indicators returns has as many rows as the input and the same   *)
(* closes, and each average (windows FAST_SMA and SLOW_SMA) is absent at   *)
(* the rows before the window-th and is, at every later row, the           *)
(* arithmetic mean of exactly the window closes ending at that row.        *)
(***************************************************************************)
C14_MovingAverage ==
    /\ [] ( (pc = "computed") =>
              /\ MeanColumnIsRight(df, "sma_fast", FAST_SMA)
              /\ MeanColumnIsRight(df, "sma_slow", SLOW_SMA) )
    /\ [][ (pc = "indicators") =>
             /\ Len(df') = Len(df)
             /\ \A i \in 1..Len(df) :
                  df'[i].Close = df[i].Close /\ df'[i].close = df[i].Close
         ]_vars

\* Closes 1, 2, 3, 3: the fast average is absent, 1.5, 2.5, 3 and the slow
\* one absent, absent, 2, 8/3.
C14_Witness ==
    /\ pc = "computed"
    /\ Len(df) = 4
    /\ df[1].sma_fast = NaN /\ df[2].sma_fast = <<3, 2>>
    /\ df[3].sma_fast = <<5, 2>> /\ df[4].sma_fast = <<3, 1>>
    /\ df[1].sma_slow = NaN /\ df[2].sma_slow = NaN
    /\ df[3].sma_slow = <<2, 1>> /\ df[4].sma_slow = <<8, 3>>

\* No close of the first i rows is below the one before it: every loss up to
\* row i is 0, which is when their smoothed average is 0.
NoLossUpTo(frame, i) ==
    \A j \in 2..i : frame[j].close[1] * frame[j - 1].close[2]
                       >= frame[j - 1].close[1] * frame[j].close[2]

(***************************************************************************)
(* C15.  Oscillator: wherever the rsi of the computed frame is defined it  *)
(* lies in [0, 100]; and at every row from the RSI_PERIOD-th on, if the    *)
(* average loss is exactly 0 (no close so far fell), it is defined and     *)
(* equals 100, also when the average gain is 0 too.                        *)
(***************************************************************************)
C15_OscillatorRange ==
    (pc = "computed") =>
        \A i \in 1..Len(df) :
            /\ (df[i].rsi # NaN) =>
                 /\ df[i].rsi[2] > 0
                 /\ 0 <= df[i].rsi[1]
                 /\ df[i].rsi[1] <= 100 * df[i].rsi[2]
            /\ (i >= RSI_PERIOD /\ NoLossUpTo(df, i)) => (df[i].rsi = <<100, 1>>)

\* Six flat closes: gains and losses are all 0; the rsi is absent up to row
\* RSI_PERIOD - 1 and 100 from row RSI_PERIOD on.
C15_Witness ==
    /\ pc = "computed"
    /\ Len(df) = MaxBars
    /\ \A i \in 1..Len(df) : df[i].close = <<2, 1>>
    /\ df[RSI_PERIOD - 1].rsi = NaN
    /\ df[RSI_PERIOD].rsi = <<100, 1>>
    /\ df[MaxBars].rsi = <<100, 1>>

(***************************************************************************)
(* C16.  Frame of the dedup memory: a step of the iteration of S changes   *)
(* no entry but that of S; an iteration that ended with no signal, with a  *)
(* duplicate, with an empty fetch or in the handler of line 114 has left   *)
(* the whole memory as it found it; and every stored value is a signal of  *)
(* a watchlist symbol, never None.                                         *)
(***************************************************************************)
C16_MemoryFrame ==
    /\ [] /\ \A s \in DOMAIN last_signals :
               s \in Symbols /\ last_signals[s] \in Signals
          /\ \A s \in Symbols \ {TraceSymbol} :
               Get(last_signals, s) = Get(start_signals, s)
          /\ ("recorded" \notin Range(trace)) => (last_signals = start_signals)
          /\ ( \/ trace = <<"empty">>
               \/ "error_reported" \in Range(trace)
               \/ trace = <<"fetched", "checked">> /\ pc \in {"fetch", "sleep"} )
             => (last_signals = start_signals)
    /\ [][ \A s \in Symbols \ {symbol} :
             Get(last_signals', s) = Get(last_signals, s) ]_vars

\* The second symbol's Sell has been recorded; the first symbol's Buy, stored
\* earlier, is untouched.
C16_Witness ==
    /\ idx = 2
    /\ pc = "sleep"
    /\ Last(trace) = "recorded"
    /\ Get(start_signals, WATCHLIST[1]) = "buy"
    /\ Get(last_signals, WATCHLIST[1]) = "buy"
    /\ Get(start_signals, WATCHLIST[2]) = None
    /\ Get(last_signals, WATCHLIST[2]) = "sell"

(***************************************************************************)
(* C17.  In the log, two records of the same symbol with no record of that *)
(* symbol between them never carry the same signal; and once the record    *)
(* step is done the stored signal of a symbol is that of its last record.  *)
(***************************************************************************)
C17_LogAlternates ==
    /\ \A i \in 1..Len(log_file.lines) : \A j \in (i + 1)..Len(log_file.lines) :
         ( /\ log_file.lines[i].kind = "row"
           /\ log_file.lines[j].kind = "row"
           /\ log_file.lines[i].symbol = log_file.lines[j].symbol
           /\ \A k \in (i + 1)..(j - 1) :
                \/ log_file.lines[k].kind # "row"
                \/ log_file.lines[k].symbol # log_file.lines[i].symbol )
         => (log_file.lines[i].signal # log_file.lines[j].signal)
    /\ \A s \in Symbols :
         (Logged(s) # {} /\ ~(pc = "record" /\ symbol = s)) =>
             \E i \in Logged(s) :
                 /\ \A k \in Logged(s) : k <= i
                 /\ Get(last_signals, s) = log_file.lines[i].signal

\* A symbol with a Buy record of the first cycle and a Sell record of the
\* second, in a run in which a delivery failed and a log write raised.
C17_Witness ==
    /\ \E s \in Symbols : \E i \in Logged(s) : \E j \in Logged(s) :
         /\ i < j
         /\ log_file.lines[i].signal = "buy"
         /\ log_file.lines[j].signal = "sell"
    /\ \E i \in 1..Len(outbox) : ~outbox[i].delivered
    /\ \E s \in Symbols : log_failed[s] >= 1

\* The four averages detect_signals reads, from the last two rows.
PrevFast == df[Len(df) - 1].sma_fast
PrevSlow == df[Len(df) - 1].sma_slow
LastFast == df[Len(df)].sma_fast
LastSlow == df[Len(df)].sma_slow

(***************************************************************************)
(* C18.  cross_up and cross_down never hold together, whatever the four    *)
(* averages (ties on the previous bar and undefined values included), and  *)
(* so detect_signals returns what it would return with the Sell branch     *)
(* tested before the Buy branch.                                           *)
(***************************************************************************)
C18_CrossesExclusive ==
    (pc = "detected" /\ Len(df) >= 2) =>
        /\ ~( /\ cross_up(PrevFast, PrevSlow, LastFast, LastSlow)
              /\ cross_down(PrevFast, PrevSlow, LastFast, LastSlow) )
        /\ EnoughData(Len(df)) =>
             sig = IF /\ cross_down(PrevFast, PrevSlow, LastFast, LastSlow)
                      /\ FLt(df[Len(df)].rsi, Float(RSI_OVERBOUGHT))
                   THEN "sell"
                   ELSE IF /\ cross_up(PrevFast, PrevSlow, LastFast, LastSlow)
                           /\ FGt(df[Len(df)].rsi, Float(RSI_OVERSOLD))
                        THEN "buy"
                        ELSE None

\* A tie on the previous bar (10.0 = 10.0) and 10.2 > 10.05 on the last, with
\* oscillator 45: a cross up, no cross down, Buy.
C18_Witness ==
    /\ pc = "detected"
    /\ Len(df) = 4
    /\ PrevFast = <<10, 1>> /\ PrevSlow = <<10, 1>>
    /\ LastFast = <<51, 5>> /\ LastSlow = <<201, 20>>
    /\ df[4].rsi = Float(45)
    /\ cross_up(PrevFast, PrevSlow, LastFast, LastSlow)
    /\ ~cross_down(PrevFast, PrevSlow, LastFast, LastSlow)
    /\ sig = "buy"

(***************************************************************************)
(* C19.  Undefined oscillator: when the four averages of the last two rows *)
(* are defined and the rsi of the last row is not, detect_signals returns  *)
(* None whatever the averages are, and the gate of line 108 lets nothing   *)
(* through, whatever is stored for the symbol.                             *)
(***************************************************************************)
C19_UndefinedOscillator ==
    ( /\ pc = "detected"
      /\ Len(df) >= 2
      /\ PrevFast # NaN /\ PrevSlow # NaN /\ LastFast # NaN /\ LastSlow # NaN
      /\ df[Len(df)].rsi = NaN ) =>
        /\ sig = None
        /\ \A stored \in Signals \cup {None} : ~ShouldEmit(sig, stored)

\* Four rows (enough for the averages, too few for RSI_PERIOD = 5): a cross
\* up, 9.8 <= 10.0 and 10.2 > 10.05, with the rsi undefined: no signal.
C19_Witness ==
    /\ pc = "detected"
    /\ Len(df) = 4
    /\ Len(df) < RSI_PERIOD
    /\ PrevFast = <<49, 5>> /\ PrevSlow = <<10, 1>>
    /\ LastFast = <<51, 5>> /\ LastSlow = <<201, 20>>
    /\ df[4].rsi = NaN
    /\ sig = None

====
